---------------------------- MODULE Spec2Model ----------------------------
(***************************************************************************)
(* Conversation manager of goss-up-server (src/controllers/                *)
(* chat.controller.js): one-to-one and group chat creation, group          *)
(* membership and admin mutations, and the paginated chat queries.         *)
(*                                                                         *)
(* Two requests (Procs) are served concurrently.  A handler is cut at its  *)
(* awaits on the chat store, on the friendship store and on the blob       *)
(* store: everything between two awaits is local to the request and is one *)
(* atomic step.  The process start of the entry file comes before them.    *)
(* User ids are small integers ordered as the hex ids are; chat ids are    *)
(* the positions of the records in the store, which never deletes one.     *)
(***************************************************************************)
EXTENDS Integers, Sequences, FiniteSets, TLC

VARIABLES
    chats,      \* the Chat collection: chat id -> stored record
    friends,    \* the accepted Friendship records, as canonical pairs
    req,        \* per request being served: its position, inputs, loaded document
    resp,       \* the response being sent, if any: status, message and data
    answers,    \* the successful createOneToOneChat responses sent, in order
    nreq,       \* requests not refused at once, and friendship changes, so far
    pageReq,    \* the last paginated query and its answer
    cloud,      \* the blob store: the publicIds stored and the number issued
    connections,\* the live socket connections of each user
    emitted,    \* the events emitted to the connections
    boot        \* the calls the process has made since it was started, in order

\* what the chat handlers other than updateGroupIcon neither read nor write
collab == <<cloud, connections, emitted, boot>>

vars == <<chats, friends, req, resp, answers, nreq, pageReq, cloud,
          connections, emitted, boot>>

----------------------------------------------------------------------------
(* Bounds of the model *)

MaxChats == 2        \* chat records the store may hold
MaxOps == 3          \* requests not refused at once, and friendship changes
MaxTotal == 101      \* chats of one user in the pagination specification
MaxPage == 4         \* largest page number requested
MaxServed == 2       \* requests served on the group SpecServed starts with
MaxConn == 2         \* live socket connections of one user

Procs == {1, 2}
Users == {1, 2, 3}
\* ids a request may carry: 0 is the empty string, -1 a string that is no
\* ObjectId, 4 a well-formed id of no user
InputIds == {-1, 0, 4} \cup Users
\* group names a request may carry, as character sequences
NameInputs == {<<>>, <<" ">>, <<"a">>, <<"b", " ">>}
\* group ids a request may carry: 0 is the empty string, then the ids of the
\* stored chats and, while the store has room, the id of no chat
GroupInputs ==
    0..(IF Len(chats) < MaxChats THEN Len(chats) + 1 ELSE MaxChats)
\* a createGroup request names at most as many ids as there are other users
MaxNamed == Cardinality(Users) - 1
\* participant lists a createGroup request may carry
ParticipantInputs == UNION {[1..n -> InputIds \ {-1}] : n \in 0..MaxNamed}
\* bodies of the createGroup requests: a name with every participant list, and
\* a blank name
CreateGroupInputs ==
    {[participants |-> ps, groupName |-> <<"a">>] : ps \in ParticipantInputs}
        \cup {[participants |-> <<2, 3>>, groupName |-> <<" ">>]}

----------------------------------------------------------------------------
(* Helpers of the language and of the libraries *)

\* Array.prototype.includes / MongooseArray#includes
Includes(s, x) == \E i \in 1..Len(s) : s[i] = x

\* Array.prototype.indexOf, 1-based; 0 stands for -1
IndexOf(s, x) ==
    IF Includes(s, x) THEN CHOOSE i \in 1..Len(s) :
                                /\ s[i] = x
                                /\ \A j \in 1..(i - 1) : s[j] # x
    ELSE 0

\* array.splice(idx, 1) with a 1-based idx; 0 stands for -1, which counts
\* from the end
Splice(s, idx) ==
    IF s = <<>> THEN s
    ELSE LET at == IF idx = 0 THEN Len(s) ELSE idx
         IN  [i \in 1..(Len(s) - 1) |-> IF i < at THEN s[i] ELSE s[i + 1]]

\* array.push(x)
Push(s, x) == Append(s, x)

RECURSIVE TrimLeft(_)
TrimLeft(s) == IF s # <<>> /\ Head(s) = " " THEN TrimLeft(Tail(s)) ELSE s

RECURSIVE TrimRight(_)
TrimRight(s) ==
    IF s # <<>> /\ s[Len(s)] = " " THEN TrimRight(SubSeq(s, 1, Len(s) - 1)) ELSE s

\* String.prototype.trim
Trim(s) == TrimRight(TrimLeft(s))

\* !groupName || groupName.trim() === ""
IsBlankName(name) == name = <<>> \/ Trim(name) = <<>>

\* !id || id.trim() === ""
IsBlankId(id) == id = 0

isValidObjectId(id) == id >= 1

\* sortUserIds(a, b): the pair, smaller id first
sortUserIds(a, b) == IF a < b THEN <<a, b>> ELSE <<b, a>>

\* User.findById(id) / User.find: the users that exist
UserExists(id) == id \in Users

AllPairs == {<<a, b>> \in Users \X Users : a < b}

\* the lookup with the ids of the pair in the wrong fields
FindAccepted_Swapped(fs, smallerId, biggerId) ==
    smallerId # biggerId /\ <<biggerId, smallerId>> \in fs

\* Friendship.findOne({userOneId, userTwoId, status: "accepted"})
FindAccepted(fs, smallerId, biggerId) == <<smallerId, biggerId>> \in fs

----------------------------------------------------------------------------
(* Stored records *)

\* groupIcon is the publicId of the icon, 0 when the record has none
OneToOneChat(smallerId, biggerId) ==
    [chatType |-> "one-to-one", participants |-> <<smallerId, biggerId>>,
     admins |-> <<>>, groupName |-> <<>>, groupIcon |-> 0]

GroupChat(participants, groupName, admin) ==
    [chatType |-> "group", participants |-> participants,
     admins |-> <<admin>>, groupName |-> groupName, groupIcon |-> 0]

NoDoc == [chatType |-> "none", participants |-> <<>>, admins |-> <<>>,
          groupName |-> <<>>, groupIcon |-> 0]

\* Chat.findById(groupId): the record, or NoDoc for null
FindById(cs, groupId) ==
    IF groupId \in 1..Len(cs) THEN cs[groupId] ELSE NoDoc

\* the $match of createOneToOneChat: ids of the stored one-to-one chats whose
\* participants are exactly [smallerId, biggerId]
MatchOneToOne(cs, smallerId, biggerId) ==
    {i \in 1..Len(cs) : /\ cs[i].chatType = "one-to-one"
                        /\ cs[i].participants = <<smallerId, biggerId>>}

\* chat[0]: the first matching record
FirstMatch(cs, smallerId, biggerId) ==
    CHOOSE i \in MatchOneToOne(cs, smallerId, biggerId) :
        \A j \in MatchOneToOne(cs, smallerId, biggerId) : i <= j

----------------------------------------------------------------------------
(* Process start, lines 7-18 of the entry file.  boot is the log of what    *)
(* the process has done: the outcome of connectDB() and the calls made.     *)

\* the callback with the socket service attached before the server exists
StartupCalls_AttachFirst == <<"attach", "listen", "initializeListeners">>

\* lines 9-14: the calls of the callback of connectDB().then, in order
StartupCalls == <<"listen", "attach", "initializeListeners">>

\* lines 7-14: the connection has succeeded and the callback runs
ConnectDB_Then ==
    /\ boot = <<>>
    /\ boot' = <<"connected">> \o StartupCalls
    /\ UNCHANGED <<chats, friends, req, resp, answers, nreq, pageReq, cloud,
                   connections, emitted>>

\* lines 15-18: the connection has failed; the error is logged and the
\* process exits
ConnectDB_Catch ==
    /\ boot = <<>>
    /\ boot' = <<"failed", "exit">>
    /\ UNCHANGED <<chats, friends, req, resp, answers, nreq, pageReq, cloud,
                   connections, emitted>>

\* app.listen has been called: requests are served
Listening == \E i \in 1..Len(boot) : boot[i] = "listen"

----------------------------------------------------------------------------
(* Requests and responses *)

\* file is whether the request carries an upload, response the publicId the
\* blob store answered an upload with
Idle == [pc |-> "idle", op |-> "none", actor |-> 0, g |-> 0, target |-> 0,
         name |-> <<>>, named |-> <<>>, doc |-> NoDoc, stale |-> FALSE,
         seen |-> "none", other |-> <<>>, file |-> FALSE, response |-> 0]

\* a request as it arrives
Request(op, actor, g, target, name) ==
    [Idle EXCEPT !.op = op, !.actor = actor, !.g = g, !.target = target,
                 !.name = name]

\* no response is being sent
NoResp == [op |-> "none", status |-> "none", message |-> "none", chat |-> 0,
           participants |-> <<>>]

\* what another request needs to know of r to replay it
Brief(r) == <<r.op, r.actor, r.target, r.name>>

InFlight(r) == r.pc # "idle"

\* a response is delivered before anything else happens: the delivery reads
\* and writes nothing the handlers share
Quiet == resp = NoResp

\* a request may arrive at p
CanBegin(p) == Quiet /\ ~InFlight(req[p]) /\ nreq < MaxOps /\ Listening

\* a request that its first step refuses with status is not counted
Count(status) ==
    nreq' = IF status \in {"BAD_REQUEST", "UNAUTHORIZED", "NOT_FOUND"}
            THEN nreq ELSE nreq + 1

\* request r of p goes on to its next await
Continue(p, r) ==
    /\ req' = [req EXCEPT ![p] = r]
    /\ resp' = NoResp
    /\ answers' = answers

\* request r of p answers with a status, a message and, on success, the id
\* of the chat and the participants of the payload; rs is req as the step
\* leaves the other requests
Reply(rs, p, r, status, message, chat, participants) ==
    /\ req' = [rs EXCEPT ![p] = Idle]
    /\ resp' = [op |-> r.op, status |-> status, message |-> message,
                chat |-> chat, participants |-> participants]
    /\ answers' = IF r.op = "createOneToOne" /\ status \in {"OK", "CREATED"}
                  THEN Append(answers, [actor |-> r.actor, target |-> r.target,
                                        status |-> status, chat |-> chat])
                  ELSE answers

\* d is <<status, message>>: go on with r1 when the status is "CONTINUE",
\* answer otherwise
Decide(p, r, r1, d) ==
    IF d[1] = "CONTINUE" THEN Continue(p, r1)
    ELSE Reply(req, p, r, d[1], d[2], 0, <<>>)

\* no paginated query has been answered
NoPage == [op |-> "none", actor |-> 0, search |-> <<>>,
           raw |-> [numeric |-> FALSE, value |-> 0], status |-> "none",
           page |-> 0, returned |-> 0, total |-> 0, hasMore |-> FALSE]

\* the response, or the answer of a paginated query, has been sent
Deliver ==
    /\ ~Quiet \/ pageReq # NoPage
    /\ resp' = NoResp
    /\ pageReq' = NoPage
    /\ UNCHANGED <<chats, friends, req, answers, nreq, collab>>

\* the blob store holds nothing
NoCloud == [stored |-> {}, issued |-> 0]

\* the process has started and serves requests; no socket is connected and
\* no icon has been uploaded
Serving ==
    /\ cloud = NoCloud
    /\ connections = [u \in Users |-> 0]
    /\ emitted = {}
    /\ boot = <<"connected">> \o StartupCalls

Init ==
    /\ chats = <<>>
    /\ friends \in SUBSET AllPairs
    /\ req = [p \in Procs |-> Idle]
    /\ resp = NoResp
    /\ answers = <<>>
    /\ nreq = 0
    /\ pageReq = NoPage
    /\ Serving

----------------------------------------------------------------------------
(* createOneToOneChat *)

\* requests that are about to insert a record
Creating == {q \in Procs : req[q].op \in {"createOneToOne", "createGroup"}}

HasRoom == Len(chats) + Cardinality(Creating) < MaxChats

\* the lookup of an existing chat with the pair as the request names it
OneToOneDecision_Unsorted(cs, actor, userId) ==
    IF IsBlankId(userId) \/ ~isValidObjectId(userId)
    THEN <<"BAD_REQUEST", "Invalid user id", 0>>
    ELSE IF ~UserExists(userId)
    THEN <<"NOT_FOUND", "User not found", 0>>
    ELSE IF MatchOneToOne(cs, actor, userId) # {}
    THEN <<"OK", "Chat already exists", FirstMatch(cs, actor, userId)>>
    ELSE <<"CONTINUE", "", 0>>

\* the handler without the lookup of an existing chat
OneToOneDecision_NoLookup(cs, actor, userId) ==
    IF IsBlankId(userId) \/ ~isValidObjectId(userId)
    THEN <<"BAD_REQUEST", "Invalid user id", 0>>
    ELSE IF ~UserExists(userId)
    THEN <<"NOT_FOUND", "User not found", 0>>
    ELSE <<"CONTINUE", "", 0>>

\* lines 24-78: what the handler decides up to the lookup of an existing chat
OneToOneDecision(cs, actor, userId) ==
    LET pair == sortUserIds(actor, userId)
    IN  IF IsBlankId(userId) \/ ~isValidObjectId(userId)
        THEN <<"BAD_REQUEST", "Invalid user id", 0>>
        ELSE IF ~UserExists(userId)
        THEN <<"NOT_FOUND", "User not found", 0>>
        ELSE IF MatchOneToOne(cs, pair[1], pair[2]) # {}
        THEN <<"OK", "Chat already exists", FirstMatch(cs, pair[1], pair[2])>>
        ELSE <<"CONTINUE", "", 0>>

\* lines 24-78: validation, User.findById and the lookup of an existing chat
CreateOneToOne_Lookup(p, actor, userId) ==
    LET r == Request("createOneToOne", actor, 0, userId, <<>>)
        d == OneToOneDecision(chats, actor, userId)
    IN  /\ CanBegin(p)
        /\ HasRoom \/ d[1] # "CONTINUE"
        /\ Count(d[1])
        /\ IF d[1] = "CONTINUE" THEN Continue(p, [r EXCEPT !.pc = "friendship"])
           ELSE Reply(req, p, r, d[1], d[2], d[3],
                      IF d[1] = "OK" THEN <<actor, userId>> ELSE <<>>)
        /\ UNCHANGED <<chats, friends, pageReq, collab>>

\* lines 79-87: the friendship lookup
CreateOneToOne_Friendship(p) ==
    LET r == req[p]
        pair == sortUserIds(r.actor, r.target)
    IN  /\ Quiet
        /\ r.pc = "friendship"
        /\ r.op = "createOneToOne"
        /\ IF ~FindAccepted(friends, pair[1], pair[2])
           THEN Reply(req, p, r, "BAD_REQUEST", "You can only chat with friends",
                      0, <<>>)
           ELSE Continue(p, [r EXCEPT !.pc = "create"])
        /\ UNCHANGED <<chats, friends, nreq, pageReq, collab>>

\* lines 88-102: Chat.create and the response.  The Chat schema decides what
\* the insertion of a second record of a pair does: it is stored, or it is
\* refused with a duplicate key error, which the handler does not catch
CreateOneToOne_Create(p) ==
    LET r == req[p]
        pair == sortUserIds(r.actor, r.target)
        outcomes == IF MatchOneToOne(chats, pair[1], pair[2]) # {}
                    THEN {"stored", "refused"} ELSE {"stored"}
    IN  /\ Quiet
        /\ r.pc = "create"
        /\ r.op = "createOneToOne"
        /\ \E outcome \in outcomes :
               IF outcome = "stored"
               THEN /\ chats' = Append(chats, OneToOneChat(pair[1], pair[2]))
                    /\ Reply(req, p, r, "CREATED", "Chat created",
                             Len(chats) + 1, <<r.actor, r.target>>)
               ELSE /\ chats' = chats
                    /\ Reply(req, p, r, "INTERNAL_SERVER_ERROR",
                             "duplicate key", 0, <<>>)
        /\ UNCHANGED <<friends, nreq, pageReq, collab>>

----------------------------------------------------------------------------
(* createGroupChat *)

\* ids of a list, without repetition
Range(s) == {s[i] : i \in 1..Len(s)}

\* participants.filter((id) => isValidObjectId(id))
FilterValid(s) == SelectSeq(s, isValidObjectId)

\* User.find({_id: {$in: ids}}): one user per distinct id that exists
FindUsers(ids) == {u \in Range(ids) : UserExists(u)}

\* Friendship.find({$or: pairs, status: "accepted"}): the accepted records
\* between the requester and the named ids
FindFriendShips(fs, ids, loggedInUserId) ==
    {f \in fs : \E i \in 1..Len(ids) :
         f = (IF ids[i] < loggedInUserId THEN <<ids[i], loggedInUserId>>
                                         ELSE <<loggedInUserId, ids[i]>>)}

\* createGroupChat without the comparison of the friendships found
CreateGroupStatus_NoFriendCheck(fs, loggedInUserId, participants, groupName) ==
    LET validParticipantsIds == FilterValid(participants)
    IN  IF IsBlankName(groupName)
        THEN <<"BAD_REQUEST", "Group name is required">>
        ELSE IF Len(participants) < 2
        THEN <<"BAD_REQUEST", "participants is required and should be more than 1">>
        ELSE IF Len(participants) # Len(validParticipantsIds)
        THEN <<"BAD_REQUEST", "Some participants are invalid">>
        ELSE IF Cardinality(FindUsers(validParticipantsIds)) # Len(validParticipantsIds)
        THEN <<"BAD_REQUEST", "Some user do not exists">>
        ELSE <<"CREATED", "Group chat created">>

\* lines 105-168: the response of createGroupChat, "CREATED" when it inserts
CreateGroupStatus(fs, loggedInUserId, participants, groupName) ==
    LET validParticipantsIds == FilterValid(participants)
    IN  IF IsBlankName(groupName)
        THEN <<"BAD_REQUEST", "Group name is required">>
        ELSE IF Len(participants) < 2
        THEN <<"BAD_REQUEST", "participants is required and should be more than 1">>
        ELSE IF Len(participants) # Len(validParticipantsIds)
        THEN <<"BAD_REQUEST", "Some participants are invalid">>
        ELSE IF Cardinality(FindUsers(validParticipantsIds)) # Len(validParticipantsIds)
        THEN <<"BAD_REQUEST", "Some user do not exists">>
        ELSE IF Cardinality(FindFriendShips(fs, validParticipantsIds, loggedInUserId))
                    # Len(validParticipantsIds)
        THEN <<"BAD_REQUEST", "You can only add friends to the group">>
        ELSE <<"CREATED", "Group chat created">>

\* lines 146-152: the record createGroupChat inserts
NewGroupChat(loggedInUserId, participants, groupName) ==
    GroupChat(Push(FilterValid(participants), loggedInUserId), groupName,
              loggedInUserId)

\* lines 105-145: validation, User.find and Friendship.find
CreateGroupChat_Check(p, actor, participants, groupName) ==
    LET r == Request("createGroup", actor, 0, 0, groupName)
        res == CreateGroupStatus(friends, actor, participants, groupName)
    IN  /\ CanBegin(p)
        /\ HasRoom \/ res[1] # "CREATED"
        /\ Count(res[1])
        /\ IF res[1] = "CREATED"
           THEN Continue(p, [r EXCEPT !.pc = "create", !.named = participants])
           ELSE Reply(req, p, r, res[1], res[2], 0, <<>>)
        /\ UNCHANGED <<chats, friends, pageReq, collab>>

\* lines 146-167: Chat.create and the response
CreateGroupChat_Create(p) ==
    LET r == req[p]
    IN  /\ Quiet
        /\ r.pc = "create"
        /\ r.op = "createGroup"
        /\ chats' = Append(chats, NewGroupChat(r.actor, r.named, r.name))
        /\ Reply(req, p, r, "CREATED", "Group chat created", Len(chats) + 1,
                 Push(FilterValid(r.named), r.actor))
        /\ UNCHANGED <<friends, nreq, pageReq, collab>>

----------------------------------------------------------------------------
(* Saving a loaded document.  groupChat.save() sends the paths the handler  *)
(* changed.  An array changed by push alone is sent as $push and is applied *)
(* to the stored array; an array changed by splice is sent whole and the    *)
(* update is conditioned on the version the document was loaded with, so it *)
(* fails with a VersionError when another save has changed an array of the  *)
(* record since.  A changed groupName is sent as a $set and touches no      *)
(* version.  stale records that the stored version has moved on; seen and   *)
(* other record which saves have reached the record since it was loaded.    *)

\* req after request r of p has saved chat g: the other requests that hold a
\* loaded copy of it take notice
Touch(p, r, versioned) ==
    [q \in Procs |->
        IF q # p /\ InFlight(req[q]) /\ req[q].g = r.g /\ req[q].doc # NoDoc
        THEN [req[q] EXCEPT
                 !.stale = @ \/ versioned,
                 !.seen = IF @ = "none" /\ r.seen = "none" THEN "one" ELSE "many",
                 !.other = IF req[q].seen = "none" /\ r.seen = "none"
                           THEN Brief(r) ELSE <<>>]
        ELSE req[q]]

VersionError(p, r) ==
    Reply(req, p, r, "INTERNAL_SERVER_ERROR", "VersionError", 0, <<>>)

----------------------------------------------------------------------------
(* updateGroupName *)

\* lines 171-187: validation, Chat.findById and the admin check
RenameDecision(cs, actor, groupId, groupName) ==
    LET groupChat == FindById(cs, groupId)
    IN  IF IsBlankName(groupName)
        THEN <<"BAD_REQUEST", "Group name is required">>
        ELSE IF ~isValidObjectId(groupId)
        THEN <<"BAD_REQUEST", "Invalid group id">>
        ELSE IF groupChat = NoDoc \/ groupChat.chatType # "group"
        THEN <<"NOT_FOUND", "Group chat not found">>
        ELSE IF ~Includes(groupChat.admins, actor)
        THEN <<"UNAUTHORIZED", "Only admins can change group name">>
        ELSE <<"CONTINUE", "">>

UpdateGroupName_Load(p, actor, groupId, groupName) ==
    LET r == Request("updateGroupName", actor, groupId, 0, groupName)
    IN  /\ CanBegin(p)
        /\ Count(RenameDecision(chats, actor, groupId, groupName)[1])
        /\ Decide(p, r, [r EXCEPT !.pc = "save", !.doc = FindById(chats, groupId)],
                  RenameDecision(chats, actor, groupId, groupName))
        /\ UNCHANGED <<chats, friends, pageReq, collab>>

\* line 188: the edit made to the loaded document
RenameEdits(doc, groupName) == [doc EXCEPT !.groupName = groupName]

\* lines 188-190
UpdateGroupName_Save(p) ==
    LET r == req[p]
    IN  /\ Quiet
        /\ r.pc = "save"
        /\ r.op = "updateGroupName"
        /\ chats' = [chats EXCEPT ![r.g].groupName =
                        RenameEdits(r.doc, r.name).groupName]
        /\ Reply(Touch(p, r, FALSE), p, r, "OK", "Group name updated", r.g,
                 <<>>)
        /\ UNCHANGED <<friends, nreq, pageReq, collab>>

----------------------------------------------------------------------------
(* utilityForGroupAction, lines 193-232: <<statusCode, message>>, and       *)
(* "CONTINUE" for success                                                   *)

\* utilityForGroupAction without the admin check
utilityForGroupAction_NoAdminCheck(cs, groupId, participantId, loggedInUserId) ==
    LET groupChat == FindById(cs, groupId)
    IN  IF IsBlankId(groupId) \/ IsBlankId(participantId)
        THEN <<"BAD_REQUEST", "All fields are required">>
        ELSE IF ~isValidObjectId(groupId) \/ ~isValidObjectId(participantId)
        THEN <<"BAD_REQUEST", "Invalid ids">>
        ELSE IF groupChat = NoDoc \/ groupChat.chatType # "group"
        THEN <<"NOT_FOUND", "Group chat not found">>
        ELSE <<"CONTINUE", "">>

\* utilityForGroupAction without the check of the chat type
utilityForGroupAction_AnyType(cs, groupId, participantId, loggedInUserId) ==
    LET groupChat == FindById(cs, groupId)
    IN  IF IsBlankId(groupId) \/ IsBlankId(participantId)
        THEN <<"BAD_REQUEST", "All fields are required">>
        ELSE IF ~isValidObjectId(groupId) \/ ~isValidObjectId(participantId)
        THEN <<"BAD_REQUEST", "Invalid ids">>
        ELSE IF groupChat = NoDoc
        THEN <<"NOT_FOUND", "Group chat not found">>
        ELSE IF ~Includes(groupChat.admins, loggedInUserId)
        THEN <<"UNAUTHORIZED", "Only admins can perform this action">>
        ELSE <<"CONTINUE", "">>

utilityForGroupAction(cs, groupId, participantId, loggedInUserId) ==
    LET groupChat == FindById(cs, groupId)
    IN  IF IsBlankId(groupId) \/ IsBlankId(participantId)
        THEN <<"BAD_REQUEST", "All fields are required">>
        ELSE IF ~isValidObjectId(groupId) \/ ~isValidObjectId(participantId)
        THEN <<"BAD_REQUEST", "Invalid ids">>
        ELSE IF groupChat = NoDoc \/ groupChat.chatType # "group"
        THEN <<"NOT_FOUND", "Group chat not found">>
        ELSE IF ~Includes(groupChat.admins, loggedInUserId)
        THEN <<"UNAUTHORIZED", "Only admins can perform this action">>
        ELSE <<"CONTINUE", "">>

----------------------------------------------------------------------------
(* addParticipant *)

\* lines 235-243
AddDecision(cs, actor, groupId, participantId) ==
    LET u == utilityForGroupAction(cs, groupId, participantId, actor)
    IN  IF u[1] # "CONTINUE" THEN u
        ELSE IF Includes(FindById(cs, groupId).participants, participantId)
        THEN <<"BAD_REQUEST", "This user is already in the group">>
        ELSE <<"CONTINUE", "">>

AddParticipant_Load(p, actor, groupId, participantId) ==
    LET r == Request("addParticipant", actor, groupId, participantId, <<>>)
    IN  /\ CanBegin(p)
        /\ Count(AddDecision(chats, actor, groupId, participantId)[1])
        /\ Decide(p, r, [r EXCEPT !.pc = "friendship",
                                  !.doc = FindById(chats, groupId)],
                  AddDecision(chats, actor, groupId, participantId))
        /\ UNCHANGED <<chats, friends, pageReq, collab>>

\* lines 244-257
AddFriendDecision(fs, actor, participantId) ==
    LET pair == sortUserIds(actor, participantId)
    IN  IF ~FindAccepted(fs, pair[1], pair[2])
        THEN <<"BAD_REQUEST", "You can only add your friends to the group">>
        ELSE <<"CONTINUE", "">>

AddParticipant_Friendship(p) ==
    LET r == req[p]
    IN  /\ Quiet
        /\ r.pc = "friendship"
        /\ r.op = "addParticipant"
        /\ Decide(p, r, [r EXCEPT !.pc = "save"],
                  AddFriendDecision(friends, r.actor, r.target))
        /\ UNCHANGED <<chats, friends, nreq, pageReq, collab>>

\* line 258: the edit made to the loaded document
AddEdits(doc, participantId) ==
    [doc EXCEPT !.participants = Push(@, participantId)]

\* lines 258-260: participants.push is saved as a $push
AddParticipant_Save(p) ==
    LET r == req[p]
    IN  /\ Quiet
        /\ r.pc = "save"
        /\ r.op = "addParticipant"
        /\ chats' = [chats EXCEPT ![r.g] = AddEdits(@, r.target)]
        /\ Reply(Touch(p, r, TRUE), p, r, "OK", "User added to group", r.g,
                 <<>>)
        /\ UNCHANGED <<friends, nreq, pageReq, collab>>

----------------------------------------------------------------------------
(* removeParticipant *)

\* removeParticipant without the check that the target is in the group
RemoveDecision_NoMembership(cs, actor, groupId, participantId) ==
    LET u == utilityForGroupAction(cs, groupId, participantId, actor)
    IN  IF u[1] # "CONTINUE" THEN u
        ELSE IF actor = participantId
        THEN <<"BAD_REQUEST", "You can't remove yourself, try leaving the group">>
        ELSE <<"CONTINUE", "">>

\* lines 264-283
RemoveDecision(cs, actor, groupId, participantId) ==
    LET u == utilityForGroupAction(cs, groupId, participantId, actor)
    IN  IF u[1] # "CONTINUE" THEN u
        ELSE IF actor = participantId
        THEN <<"BAD_REQUEST", "You can't remove yourself, try leaving the group">>
        ELSE IF IndexOf(FindById(cs, groupId).participants, participantId) = 0
        THEN <<"BAD_REQUEST", "This user is not in the group">>
        ELSE <<"CONTINUE", "">>

RemoveParticipant_Load(p, actor, groupId, participantId) ==
    LET r == Request("removeParticipant", actor, groupId, participantId, <<>>)
    IN  /\ CanBegin(p)
        /\ Count(RemoveDecision(chats, actor, groupId, participantId)[1])
        /\ Decide(p, r, [r EXCEPT !.pc = "save", !.doc = FindById(chats, groupId)],
                  RemoveDecision(chats, actor, groupId, participantId))
        /\ UNCHANGED <<chats, friends, pageReq, collab>>

\* removeParticipant leaving the target among the admins
RemoveEdits_KeepAdmin(doc, participantId) ==
    LET pIdx == IndexOf(doc.participants, participantId)
    IN  [doc EXCEPT !.participants = Splice(@, pIdx)]

\* lines 284-289: the edits made to the loaded document
RemoveEdits(doc, participantId) ==
    LET pIdx == IndexOf(doc.participants, participantId)
        aIdx == IndexOf(doc.admins, participantId)
    IN  [doc EXCEPT !.participants = Splice(@, pIdx),
                    !.admins = IF aIdx # 0 THEN Splice(@, aIdx) ELSE @]

\* lines 284-291: a spliced array is sent whole, under the version check
RemoveParticipant_Save(p) ==
    LET r == req[p]
        edited == RemoveEdits(r.doc, r.target)
    IN  /\ Quiet
        /\ r.pc = "save"
        /\ r.op = "removeParticipant"
        /\ IF r.stale
           THEN /\ chats' = chats
                /\ VersionError(p, r)
           ELSE /\ chats' = [chats EXCEPT
                       ![r.g].participants = edited.participants,
                       ![r.g].admins = IF edited.admins # r.doc.admins
                                       THEN edited.admins ELSE @]
                /\ Reply(Touch(p, r, TRUE), p, r, "OK",
                         "User removed from group", r.g, <<>>)
        /\ UNCHANGED <<friends, nreq, pageReq, collab>>

----------------------------------------------------------------------------
(* toggleAdmin *)

\* lines 295-305
ToggleDecision(cs, actor, groupId, participantId) ==
    LET u == utilityForGroupAction(cs, groupId, participantId, actor)
    IN  IF u[1] # "CONTINUE" THEN u
        ELSE IF IndexOf(FindById(cs, groupId).participants, participantId) = 0
        THEN <<"BAD_REQUEST", "This user is not in the group">>
        ELSE <<"CONTINUE", "">>

ToggleAdmin_Load(p, actor, groupId, participantId) ==
    LET r == Request("toggleAdmin", actor, groupId, participantId, <<>>)
    IN  /\ CanBegin(p)
        /\ Count(ToggleDecision(chats, actor, groupId, participantId)[1])
        /\ Decide(p, r, [r EXCEPT !.pc = "save", !.doc = FindById(chats, groupId)],
                  ToggleDecision(chats, actor, groupId, participantId))
        /\ UNCHANGED <<chats, friends, pageReq, collab>>

\* toggleAdmin pushing the target whether or not it is an admin
ToggleEdits_AlwaysPush(doc, participantId) ==
    [doc EXCEPT !.admins = Push(@, participantId)]

\* lines 306-314: the edit made to the loaded document
ToggleEdits(doc, participantId) ==
    LET aIdx == IndexOf(doc.admins, participantId)
    IN  IF aIdx = 0 THEN [doc EXCEPT !.admins = Push(@, participantId)]
        ELSE [doc EXCEPT !.admins = Splice(@, aIdx)]

\* lines 307-314: responseMessage
ToggleMessage(doc, participantId) ==
    IF IndexOf(doc.admins, participantId) = 0 THEN "User marked as admin"
    ELSE "Admin removed"

\* lines 306-316: admins.push alone is saved as a $push; a spliced array is
\* sent whole, under the version check
ToggleAdmin_Save(p) ==
    LET r == req[p]
        pushed == IndexOf(r.doc.admins, r.target) = 0
    IN  /\ Quiet
        /\ r.pc = "save"
        /\ r.op = "toggleAdmin"
        /\ IF ~pushed /\ r.stale
           THEN /\ chats' = chats
                /\ VersionError(p, r)
           ELSE /\ chats' = [chats EXCEPT ![r.g].admins =
                       IF pushed THEN Push(@, r.target)
                       ELSE ToggleEdits(r.doc, r.target).admins]
                /\ Reply(Touch(p, r, TRUE), p, r, "OK",
                         ToggleMessage(r.doc, r.target), r.g, <<>>)
        /\ UNCHANGED <<friends, nreq, pageReq, collab>>

----------------------------------------------------------------------------
(* leaveGroup *)

\* lines 320-336: "OK" when the participants become empty: the handler then
\* answers without saving
LeaveDecision(cs, actor, groupId) ==
    LET groupChat == FindById(cs, groupId)
    IN  IF IsBlankId(groupId)
        THEN <<"BAD_REQUEST", "Please provide group id">>
        ELSE IF groupChat = NoDoc \/ groupChat.chatType # "group"
        THEN <<"NOT_FOUND", "Group chat not found">>
        ELSE IF IndexOf(groupChat.participants, actor) = 0
        THEN <<"BAD_REQUEST", "You are not in the group">>
        ELSE IF Len(Splice(groupChat.participants,
                           IndexOf(groupChat.participants, actor))) = 0
        THEN <<"OK", "You left the group">>
        ELSE <<"CONTINUE", "">>

LeaveGroup_Load(p, actor, groupId) ==
    LET r == Request("leaveGroup", actor, groupId, 0, <<>>)
        d == LeaveDecision(chats, actor, groupId)
    IN  /\ CanBegin(p)
        /\ Count(d[1])
        /\ IF d[1] = "CONTINUE"
           THEN Continue(p, [r EXCEPT !.pc = "save", !.doc = FindById(chats, groupId)])
           ELSE Reply(req, p, r, d[1], d[2], IF d[1] = "OK" THEN groupId ELSE 0,
                      <<>>)
        /\ UNCHANGED <<chats, friends, pageReq, collab>>

\* leaveGroup without the promotion of a participant
LeaveEdits_NoPromotion(doc, loggedInUserId) ==
    LET pIdx == IndexOf(doc.participants, loggedInUserId)
        aIdx == IndexOf(doc.admins, loggedInUserId)
    IN  [doc EXCEPT !.participants = Splice(@, pIdx),
                    !.admins = IF aIdx # 0 THEN Splice(@, aIdx) ELSE @]

\* lines 332-343: the edits made to the loaded document when somebody stays
LeaveEdits(doc, loggedInUserId) ==
    LET pIdx == IndexOf(doc.participants, loggedInUserId)
        aIdx == IndexOf(doc.admins, loggedInUserId)
        participants == Splice(doc.participants, pIdx)
        admins == IF aIdx # 0 THEN Splice(doc.admins, aIdx) ELSE doc.admins
    IN  [doc EXCEPT !.participants = participants,
                    !.admins = IF aIdx # 0 /\ Len(admins) = 0
                               THEN Push(admins, participants[1]) ELSE admins]

\* lines 337-345
LeaveGroup_Save(p) ==
    LET r == req[p]
        edited == LeaveEdits(r.doc, r.actor)
    IN  /\ Quiet
        /\ r.pc = "save"
        /\ r.op = "leaveGroup"
        /\ IF r.stale
           THEN /\ chats' = chats
                /\ VersionError(p, r)
           ELSE /\ chats' = [chats EXCEPT
                       ![r.g].participants = edited.participants,
                       ![r.g].admins = IF edited.admins # r.doc.admins
                                       THEN edited.admins ELSE @]
                /\ Reply(Touch(p, r, TRUE), p, r, "OK", "You left the group",
                         r.g, <<>>)
        /\ UNCHANGED <<friends, nreq, pageReq, collab>>

----------------------------------------------------------------------------
(* updateGroupIcon *)

\* uploadOnCloudinary(path, folder): the blob store after the call and the
\* response, the publicId of the new blob, or 0 for the null of a failure
uploadOnCloudinary(c, ok) ==
    IF ok
    THEN [cloud |-> [stored |-> c.stored \cup {c.issued + 1},
                     issued |-> c.issued + 1],
          response |-> c.issued + 1]
    ELSE [cloud |-> c, response |-> 0]

\* deleteFromCloudinary(publicId): the blob store after the call; a failure
\* leaves the blob and is not thrown
deleteFromCloudinary(c, publicId, ok) ==
    IF ok THEN [c EXCEPT !.stored = @ \ {publicId}] ELSE c

\* lines 349-358: validation, Chat.findById, the admin check and the file
IconDecision(cs, actor, groupId, file) ==
    LET groupChat == FindById(cs, groupId)
    IN  IF IsBlankId(groupId)
        THEN <<"BAD_REQUEST", "Please provide group id">>
        ELSE IF groupChat = NoDoc \/ groupChat.chatType # "group"
        THEN <<"NOT_FOUND", "Group chat not found">>
        ELSE IF ~Includes(groupChat.admins, actor)
        THEN <<"BAD_REQUEST", "Only admins can update group icon">>
        ELSE IF ~file
        THEN <<"BAD_REQUEST", "Please provide a group icon">>
        ELSE <<"CONTINUE", "">>

UpdateGroupIcon_Load(p, actor, groupId, file) ==
    LET r == [Request("updateGroupIcon", actor, groupId, 0, <<>>)
                  EXCEPT !.file = file]
    IN  /\ CanBegin(p)
        /\ Count(IconDecision(chats, actor, groupId, file)[1])
        /\ Decide(p, r, [r EXCEPT !.pc = "upload",
                                  !.doc = FindById(chats, groupId)],
                  IconDecision(chats, actor, groupId, file))
        /\ UNCHANGED <<chats, friends, pageReq, collab>>

\* lines 360-362: previousGroupIconId, 0 for null
PreviousGroupIconId(doc) == IF doc.groupIcon # 0 THEN doc.groupIcon ELSE 0

\* the handler going on after an upload that failed
UploadDecision_Unchecked(response) == <<"CONTINUE", "">>

\* lines 364-366: if (!response)
UploadDecision(response) ==
    IF response = 0 THEN <<"BAD_REQUEST", "Failed to upload profile picture">>
    ELSE <<"CONTINUE", "">>

\* lines 363-366: the upload
UpdateGroupIcon_Upload(p) ==
    LET r == req[p]
    IN  /\ Quiet
        /\ r.pc = "upload"
        /\ r.op = "updateGroupIcon"
        /\ \E ok \in BOOLEAN :
               LET up == uploadOnCloudinary(cloud, ok)
               IN  /\ cloud' = up.cloud
                   /\ Decide(p, r, [r EXCEPT !.pc = "save",
                                             !.response = up.response],
                             UploadDecision(up.response))
        /\ UNCHANGED <<chats, friends, nreq, pageReq, connections, emitted,
                       boot>>

\* line 367: the edit made to the loaded document
IconEdits(doc, response) == [doc EXCEPT !.groupIcon = response]

\* lines 367-369: groupIcon is saved as a $set; the handler answers when the
\* record had no icon, and goes on to delete the previous one otherwise
UpdateGroupIcon_Save(p) ==
    LET r == req[p]
    IN  /\ Quiet
        /\ r.pc = "save"
        /\ r.op = "updateGroupIcon"
        /\ chats' = [chats EXCEPT ![r.g].groupIcon =
                        IconEdits(r.doc, r.response).groupIcon]
        /\ IF PreviousGroupIconId(r.doc) # 0
           THEN /\ req' = [Touch(p, r, FALSE) EXCEPT
                              ![p] = [r EXCEPT !.pc = "delete"]]
                /\ resp' = NoResp
                /\ answers' = answers
           ELSE Reply(Touch(p, r, FALSE), p, r, "OK",
                      "Profile picture uploaded", r.g, <<>>)
        /\ UNCHANGED <<friends, nreq, pageReq, collab>>

\* lines 369-374: the previous icon is deleted and the handler answers
UpdateGroupIcon_Delete(p) ==
    LET r == req[p]
    IN  /\ Quiet
        /\ r.pc = "delete"
        /\ r.op = "updateGroupIcon"
        /\ \E ok \in BOOLEAN :
               cloud' = deleteFromCloudinary(cloud, PreviousGroupIconId(r.doc),
                                             ok)
        /\ Reply(req, p, r, "OK", "Profile picture uploaded", r.g, <<>>)
        /\ UNCHANGED <<chats, friends, nreq, pageReq, connections, emitted,
                       boot>>

----------------------------------------------------------------------------
(* The friendship store is written by the friendship handlers, which run    *)
(* beside the chat handlers: a request is accepted, or a friend removed.    *)

FriendshipChange(pair) ==
    /\ Quiet
    /\ nreq < MaxOps
    /\ nreq' = nreq + 1
    /\ friends' = IF pair \in friends THEN friends \ {pair}
                  ELSE friends \cup {pair}
    /\ req' = [q \in Procs |->
                  IF req[q].op = "addParticipant"
                  THEN [req[q] EXCEPT !.seen = "many", !.other = <<>>]
                  ELSE req[q]]
    /\ UNCHANGED <<chats, resp, answers, pageReq, collab>>

----------------------------------------------------------------------------
(* searchGroupChat and getAllChats *)

limit == 50

\* the page parameter as it arrives: a number, or something isNaN rejects
PageInputs ==
    {[numeric |-> TRUE, value |-> v] : v \in (-1)..MaxPage}
        \cup {[numeric |-> FALSE, value |-> 0]}

\* search strings a request may carry
SearchInputs == {<<>>, <<" ">>, <<"a">>, <<"B">>}

\* page = isNaN(page) ? 1 : Number(page); if (page < 1) page = 1
EffectivePage(raw) ==
    LET page == IF ~raw.numeric THEN 1 ELSE raw.value
    IN  IF page < 1 THEN 1 ELSE page

\* the letter as the "i" option of $regex compares it
Lower(c) == CASE c = "A" -> "a" [] c = "B" -> "b" [] OTHER -> c

LowerAll(s) == [i \in 1..Len(s) |-> Lower(s[i])]

\* {groupName: {$regex: search, $options: "i"}}: search occurs in groupName
RegexMatch(groupName, search) ==
    \E i \in 1..(Len(groupName) - Len(search) + 1) :
        LowerAll(SubSeq(groupName, i, i + Len(search) - 1)) = LowerAll(search)

\* the $match of searchGroupChat, lines 387-393
SearchMatches(cs, loggedInUserId, search) ==
    SelectSeq(cs, LAMBDA c : /\ c.chatType = "group"
                              /\ Includes(c.participants, loggedInUserId)
                              /\ RegexMatch(c.groupName, search))

\* the $match of getAllChats, line 433
ChatMatches(cs, loggedInUserId) ==
    SelectSeq(cs, LAMBDA c : Includes(c.participants, loggedInUserId))

\* {$skip: (page - 1) * limit}, {$limit: limit}
PageOf(matches, page) ==
    SubSeq(matches, (page - 1) * limit + 1,
           IF page * limit < Len(matches) THEN page * limit ELSE Len(matches))

\* hasMore with the comparison off by one
HasMore_Inclusive(page, total) == page * limit <= total

\* const hasMore = page * limit < total
HasMore(page, total) == page * limit < total

\* what a paginated query answers
PageAnswer(op, actor, search, raw, matches) ==
    [op |-> op, actor |-> actor, search |-> search, raw |-> raw,
     status |-> "OK", page |-> EffectivePage(raw),
     returned |-> Len(PageOf(matches, EffectivePage(raw))),
     total |-> Len(matches),
     hasMore |-> HasMore(EffectivePage(raw), Len(matches))]

\* lines 377-425
SearchGroupChat(actor, search, raw) ==
    /\ pageReq = NoPage
    /\ pageReq' =
          IF search = <<>> \/ Trim(search) = <<>>
          THEN [NoPage EXCEPT !.op = "searchGroups", !.actor = actor,
                              !.search = search, !.raw = raw,
                              !.status = "BAD_REQUEST"]
          ELSE PageAnswer("searchGroups", actor, search, raw,
                          SearchMatches(chats, actor, search))
    /\ UNCHANGED <<chats, friends, req, resp, answers, nreq, collab>>

\* lines 427-493
GetAllChats(actor, raw) ==
    /\ pageReq = NoPage
    /\ pageReq' = PageAnswer("listChats", actor, <<>>, raw,
                             ChatMatches(chats, actor))
    /\ UNCHANGED <<chats, friends, req, resp, answers, nreq, collab>>

----------------------------------------------------------------------------
(* The socket service keeps the live connections of each user: a device or  *)
(* a tab connects, and disconnects.  The chat handlers call nothing of it.  *)

Connect(u) ==
    /\ connections[u] < MaxConn
    /\ connections' = [connections EXCEPT ![u] = @ + 1]
    /\ UNCHANGED <<chats, friends, req, resp, answers, nreq, pageReq, cloud,
                   emitted, boot>>

Disconnect(u) ==
    /\ connections[u] > 0
    /\ connections' = [connections EXCEPT ![u] = @ - 1]
    /\ UNCHANGED <<chats, friends, req, resp, answers, nreq, pageReq, cloud,
                   emitted, boot>>

----------------------------------------------------------------------------
(* A request served alone *)

\* request b = <<op, actor, target, name>> served alone on the group record
\* doc: whether it reports success, and the record it leaves
Serial(doc, fs, b) ==
    LET cs == <<doc>>
        op == b[1]
        actor == b[2]
        target == b[3]
        name == b[4]
        done(ok, d) == [ok |-> ok, doc |-> d]
    IN  CASE op = "updateGroupName" ->
                IF RenameDecision(cs, actor, 1, name)[1] = "CONTINUE"
                THEN done(TRUE, RenameEdits(doc, name)) ELSE done(FALSE, doc)
          [] op = "addParticipant" ->
                IF /\ AddDecision(cs, actor, 1, target)[1] = "CONTINUE"
                   /\ AddFriendDecision(fs, actor, target)[1] = "CONTINUE"
                THEN done(TRUE, AddEdits(doc, target)) ELSE done(FALSE, doc)
          [] op = "removeParticipant" ->
                IF RemoveDecision(cs, actor, 1, target)[1] = "CONTINUE"
                THEN done(TRUE, RemoveEdits(doc, target)) ELSE done(FALSE, doc)
          [] op = "toggleAdmin" ->
                IF ToggleDecision(cs, actor, 1, target)[1] = "CONTINUE"
                THEN done(TRUE, ToggleEdits(doc, target)) ELSE done(FALSE, doc)
          [] op = "leaveGroup" ->
                IF LeaveDecision(cs, actor, 1)[1] = "CONTINUE"
                THEN done(TRUE, LeaveEdits(doc, actor))
                ELSE done(LeaveDecision(cs, actor, 1)[1] = "OK", doc)
          [] OTHER -> done(FALSE, doc)

----------------------------------------------------------------------------
(* Specifications *)

\* the steps of the handlers serving a request at p: a request arrives and
\* runs to its first await, or the request being served goes on from an await
Create(p) ==
    \/ CanBegin(p) /\ \E actor \in Users, userId \in InputIds :
           CreateOneToOne_Lookup(p, actor, userId)
    \/ InFlight(req[p]) /\ CreateOneToOne_Friendship(p)
    \/ InFlight(req[p]) /\ CreateOneToOne_Create(p)
    \/ CanBegin(p) /\ \E actor \in Users, body \in CreateGroupInputs :
           CreateGroupChat_Check(p, actor, body.participants, body.groupName)
    \/ InFlight(req[p]) /\ CreateGroupChat_Create(p)

Mutate(p) ==
    \/ CanBegin(p) /\ \E actor \in Users, groupId \in GroupInputs,
                          groupName \in NameInputs :
           UpdateGroupName_Load(p, actor, groupId, groupName)
    \/ InFlight(req[p]) /\ UpdateGroupName_Save(p)
    \/ CanBegin(p) /\ \E actor \in Users, groupId \in GroupInputs,
                          participantId \in InputIds :
           AddParticipant_Load(p, actor, groupId, participantId)
    \/ InFlight(req[p]) /\ AddParticipant_Friendship(p)
    \/ InFlight(req[p]) /\ AddParticipant_Save(p)
    \/ CanBegin(p) /\ \E actor \in Users, groupId \in GroupInputs,
                          participantId \in InputIds :
           RemoveParticipant_Load(p, actor, groupId, participantId)
    \/ InFlight(req[p]) /\ RemoveParticipant_Save(p)
    \/ CanBegin(p) /\ \E actor \in Users, groupId \in GroupInputs,
                          participantId \in InputIds :
           ToggleAdmin_Load(p, actor, groupId, participantId)
    \/ InFlight(req[p]) /\ ToggleAdmin_Save(p)
    \/ CanBegin(p) /\ \E actor \in Users, groupId \in GroupInputs :
           LeaveGroup_Load(p, actor, groupId)
    \/ InFlight(req[p]) /\ LeaveGroup_Save(p)

Serve(p) == Create(p) \/ Mutate(p)

\* Spec: the requests are served one after the other, and the friendship
\* store changes between them or while one is served
Next ==
    \/ Serve(1)
    \/ \E pair \in AllPairs : FriendshipChange(pair)
    \/ Deliver

Spec == Init /\ [][Next]_vars

\* SpecRace: two requests are served at a time and their steps interleave.
\* It starts from an empty store, or from a store that holds the group of a
\* createGroupChat request that has been served.
InitRace ==
    /\ friends \in SUBSET AllPairs
    /\ \/ chats = <<>> /\ nreq = 0
       \/ \E actor \in Users, participants \in ParticipantInputs :
              /\ CreateGroupStatus(friends, actor, participants, <<"a">>)[1]
                     = "CREATED"
              /\ chats = <<NewGroupChat(actor, participants, <<"a">>)>>
              /\ nreq = 1
    /\ req = [p \in Procs |-> Idle]
    /\ resp = NoResp
    /\ answers = <<>>
    /\ pageReq = NoPage
    /\ Serving

NextRace ==
    \/ \E p \in Procs : Serve(p)
    \/ Deliver

SpecRace == InitRace /\ [][NextRace]_vars

\* SpecServed: two requests are served at a time on a store whose group has
\* been edited by the requests served before them, all users being friends;
\* two more requests are served from there.
GroupOps == {"updateGroupName", "addParticipant", "removeParticipant",
             "toggleAdmin", "leaveGroup"}

\* the requests on a group, as Serial takes them
GroupRequests ==
    {<<op, actor, target, <<"a">>>> :
        op \in GroupOps, actor \in Users, target \in Users}

\* the records createGroupChat inserts
CreatedGroups ==
    {NewGroupChat(x[1], x[2], <<"a">>) :
        x \in {y \in Users \X ParticipantInputs :
                  \E fs \in SUBSET AllPairs :
                      CreateGroupStatus(fs, y[1], y[2], <<"a">>)[1] = "CREATED"}}

\* the records that up to n requests, served one after the other, leave of
\* the records docs
RECURSIVE ServedFrom(_, _)
ServedFrom(docs, n) ==
    IF n = 0 THEN docs
    ELSE ServedFrom(docs \cup {Serial(d, fs, b).doc :
                                  d \in docs, fs \in SUBSET AllPairs,
                                  b \in GroupRequests},
                    n - 1)

InitServed ==
    /\ friends = AllPairs
    /\ \E doc \in ServedFrom(CreatedGroups, MaxServed) : chats = <<doc>>
    /\ nreq = MaxOps - 2
    /\ req = [p \in Procs |-> Idle]
    /\ resp = NoResp
    /\ answers = <<>>
    /\ pageReq = NoPage
    /\ Serving

NextServed ==
    \/ \E p \in Procs : Mutate(p)
    \/ Deliver

SpecServed == InitServed /\ [][NextServed]_vars

\* SpecBoot: the process starts, and serves requests one after the other
\* once it listens
InitBoot ==
    /\ chats = <<>>
    /\ friends = AllPairs
    /\ req = [p \in Procs |-> Idle]
    /\ resp = NoResp
    /\ answers = <<>>
    /\ nreq = 0
    /\ pageReq = NoPage
    /\ cloud = NoCloud
    /\ connections = [u \in Users |-> 0]
    /\ emitted = {}
    /\ boot = <<>>

NextBoot ==
    \/ ConnectDB_Then
    \/ ConnectDB_Catch
    \/ Serve(1)
    \/ Deliver

SpecBoot == InitBoot /\ [][NextBoot]_vars

\* SpecIcon: updateGroupIcon requests are served one after the other on the
\* stores SpecRace starts with
Icon(p) ==
    \/ CanBegin(p) /\ \E actor \in Users, groupId \in GroupInputs,
                          file \in BOOLEAN :
           UpdateGroupIcon_Load(p, actor, groupId, file)
    \/ InFlight(req[p]) /\ UpdateGroupIcon_Upload(p)
    \/ InFlight(req[p]) /\ UpdateGroupIcon_Save(p)
    \/ InFlight(req[p]) /\ UpdateGroupIcon_Delete(p)

NextIcon ==
    \/ Icon(1)
    \/ Deliver

SpecIcon == InitRace /\ [][NextIcon]_vars

\* SpecFanout: the requests are served one after the other while sockets
\* connect and disconnect
InitFanout == Init /\ friends = AllPairs

NextFanout ==
    \/ Serve(1)
    \/ \E u \in Users : Connect(u)
    \/ \E u \in Users : Disconnect(u)
    \/ Deliver

SpecFanout == InitFanout /\ [][NextFanout]_vars

\* SpecPage: paginated queries against a store in which user 1 has created
\* groups with its friends 2 and 3 after a one-to-one chat with user 2
PagedStore(n) ==
    [i \in 1..n |->
        IF i = 1 THEN OneToOneChat(1, 2)
        ELSE NewGroupChat(1, <<2, 3>>,
                          IF i % 2 = 0 THEN <<"a">> ELSE <<"A", "b">>)]

InitPage ==
    /\ \E n \in 0..MaxTotal : chats = PagedStore(n)
    /\ friends = {<<1, 2>>, <<1, 3>>}
    /\ req = [p \in Procs |-> Idle]
    /\ resp = NoResp
    /\ answers = <<>>
    /\ nreq = 0
    /\ pageReq = NoPage
    /\ Serving

NextPage ==
    \/ \E actor \in Users, search \in SearchInputs, raw \in PageInputs :
           SearchGroupChat(actor, search, raw)
    \/ \E actor \in Users, raw \in PageInputs : GetAllChats(actor, raw)
    \/ Deliver

SpecPage == InitPage /\ [][NextPage]_vars

----------------------------------------------------------------------------
(* Claims *)

Groups == {g \in 1..Len(chats) : chats[g].chatType = "group"}

\* the one-to-one records stored for the pair of an answer
RecordsOf(x) ==
    MatchOneToOne(chats, sortUserIds(x.actor, x.target)[1],
                  sortUserIds(x.actor, x.target)[2])

\* C1: when createOneToOne(A,B) and createOneToOne(B,A) have both answered
\* with a chat, the store holds exactly one one-to-one record for the pair
\* and both answers carry its id.
C1_OneRecordSameId ==
    \A i, j \in 1..Len(answers) :
        (answers[i].actor = answers[j].target
            /\ answers[i].target = answers[j].actor)
        => /\ Cardinality(RecordsOf(answers[i])) = 1
           /\ answers[i].chat = answers[j].chat

\* C2: a group with a participant has an admin.
C2_AdminWhileParticipants ==
    \A g \in Groups : chats[g].participants # <<>> => chats[g].admins # <<>>

\* C3: served one after the other, the first createOneToOne for a pair, by
\* either user, answers CREATED and stores the pair in sorted order; every
\* later one answers OK with the same chat id; the pair keeps one record.
C3_SequentialIdempotent ==
    \A i \in 1..Len(answers) :
        LET x == answers[i]
            pair == IF x.actor < x.target THEN <<x.actor, x.target>>
                    ELSE <<x.target, x.actor>>
            earlier == {j \in 1..(i - 1) :
                           {answers[j].actor, answers[j].target}
                               = {x.actor, x.target}}
        IN  /\ {g \in 1..Len(chats) : chats[g].chatType = "one-to-one"
                    /\ Range(chats[g].participants) = {x.actor, x.target}}
                   = {x.chat}
            /\ chats[x.chat].participants = pair
            /\ x.status = (IF earlier = {} THEN "CREATED" ELSE "OK")
            /\ \A j \in earlier : answers[j].chat = x.chat

\* C3 witness: one user created the chat and the other was answered OK.
C3_Witness ==
    /\ Len(answers) >= 2
    /\ answers[1].status = "CREATED"
    /\ answers[2].status = "OK"
    /\ answers[2].actor = answers[1].target
    /\ answers[2].target = answers[1].actor

Errors == {"BAD_REQUEST", "UNAUTHORIZED", "NOT_FOUND", "INTERNAL_SERVER_ERROR"}

\* s without x, the order of the others kept
Without(s, x) == LET keep(y) == y # x IN SelectSeq(s, keep)

\* the step answers a request of handler op
Answers(op) == resp = NoResp /\ resp' # NoResp /\ resp'.op = op

\* C4: removeParticipant with a target that is no participant, and leaveGroup
\* by a user that is no participant, answer with an error; a request of either
\* handler goes on to its save only for a participant, and one that answers
\* with an error leaves the store as it was.
C4_State ==
    \A g \in Groups, actor \in Users :
        /\ \A target \in InputIds :
               ~Includes(chats[g].participants, target)
               => RemoveDecision(chats, actor, g, target)[1] \in Errors
        /\ ~Includes(chats[g].participants, actor)
               => LeaveDecision(chats, actor, g)[1] \in Errors

C4_Step ==
    /\ \A p \in Procs :
           /\ (req[p].pc = "idle" /\ req'[p].pc = "save"
                   /\ req'[p].op = "removeParticipant")
              => Includes(chats[req'[p].g].participants, req'[p].target)
           /\ (req[p].pc = "idle" /\ req'[p].pc = "save"
                   /\ req'[p].op = "leaveGroup")
              => Includes(chats[req'[p].g].participants, req'[p].actor)
    /\ ((Answers("removeParticipant") \/ Answers("leaveGroup"))
            /\ resp'.status \in Errors)
       => chats' = chats

C4_NonParticipantUntouched == [](C4_State) /\ [][C4_Step]_vars

\* C4 witness: removeParticipant has refused a target that is not in the group.
C4_Witness ==
    /\ resp.op = "removeParticipant"
    /\ resp.message = "This user is not in the group"
    /\ Groups # {}

WellFormedId(id) == ~IsBlankId(id) /\ isValidObjectId(id)

\* C5: on an existing group and with a well-formed request, updateGroupName,
\* addParticipant, removeParticipant and toggleAdmin by an actor that is no
\* admin answer UNAUTHORIZED (the Forbidden of the error taxonomy); a request
\* of these handlers goes on only for an admin, and one that answers
\* UNAUTHORIZED leaves the store as it was.
C5_State ==
    \A g \in Groups, actor \in Users :
        ~Includes(chats[g].admins, actor)
        => /\ \A name \in NameInputs :
                  ~IsBlankName(name)
                  => RenameDecision(chats, actor, g, name)[1] = "UNAUTHORIZED"
           /\ \A target \in InputIds :
                  WellFormedId(target)
                  => /\ AddDecision(chats, actor, g, target)[1] = "UNAUTHORIZED"
                     /\ RemoveDecision(chats, actor, g, target)[1] = "UNAUTHORIZED"
                     /\ ToggleDecision(chats, actor, g, target)[1] = "UNAUTHORIZED"

\* C5 as it is stated: on an existing group every updateGroupName,
\* addParticipant, removeParticipant and toggleAdmin request by an actor that
\* is no admin answers UNAUTHORIZED.
C5_Original ==
    \A g \in Groups, actor \in Users :
        ~Includes(chats[g].admins, actor)
        => /\ \A name \in NameInputs :
                  RenameDecision(chats, actor, g, name)[1] = "UNAUTHORIZED"
           /\ \A target \in InputIds :
                  /\ AddDecision(chats, actor, g, target)[1] = "UNAUTHORIZED"
                  /\ RemoveDecision(chats, actor, g, target)[1] = "UNAUTHORIZED"
                  /\ ToggleDecision(chats, actor, g, target)[1] = "UNAUTHORIZED"

AdminOps == {"updateGroupName", "addParticipant", "removeParticipant",
             "toggleAdmin"}

C5_Step ==
    /\ \A p \in Procs :
           (req[p].pc = "idle" /\ req'[p].pc # "idle" /\ req'[p].op \in AdminOps)
           => Includes(chats[req'[p].g].admins, req'[p].actor)
    /\ (resp = NoResp /\ resp' # NoResp /\ resp'.op \in AdminOps
            /\ resp'.status = "UNAUTHORIZED")
       => chats' = chats

C5_NonAdminForbidden == [](C5_State) /\ [][C5_Step]_vars

\* C5 witness: a group exists and updateGroupName has answered UNAUTHORIZED.
C5_Witness ==
    /\ resp.op = "updateGroupName"
    /\ resp.status = "UNAUTHORIZED"
    /\ Groups # {}

\* C6: when leaveGroup saves, the actor is gone from the participants and the
\* others keep their order; if the actor was the only admin, the admins are
\* exactly the participant now at index 0; otherwise they are the old admins
\* without the actor.
C6_Step ==
    \A p \in Procs :
        (req[p].pc = "save" /\ req[p].op = "leaveGroup" /\ req'[p].pc = "idle")
        => LET old == chats[req[p].g]
               new == chats'[req[p].g]
               actor == req[p].actor
           IN  /\ resp'.status = "OK"
               /\ new.participants = Without(old.participants, actor)
               /\ new.participants # <<>>
               /\ new.admins = IF old.admins = <<actor>>
                               THEN <<new.participants[1]>>
                               ELSE Without(old.admins, actor)
               /\ new.groupName = old.groupName

C6_LeavePromotesIndexZero == [][C6_Step]_vars

\* C6 witness: the creator, the only admin, has left the group it created and
\* the participant at index 0 is the admin.
C6_Witness ==
    /\ resp.op = "leaveGroup"
    /\ resp.status = "OK"
    /\ nreq = 2
    /\ Len(chats) = 1
    /\ Len(chats[1].participants) = 2
    /\ chats[1].admins = <<chats[1].participants[1]>>

\* C8: the friendship lookup of createOneToOne sends the request on to the
\* insertion when the friendship of the pair is accepted, and otherwise
\* answers that only friends can chat (a Forbidden of the error taxonomy)
\* and inserts nothing; a one-to-one record is inserted only by a request
\* that has passed this lookup.
C8_Step ==
    /\ \A p \in Procs :
           LET r == req[p]
               pair == IF r.actor < r.target THEN <<r.actor, r.target>>
                       ELSE <<r.target, r.actor>>
           IN  /\ (r.op = "createOneToOne" /\ r.pc = "friendship" /\ req'[p] # r)
                  => /\ chats' = chats
                     /\ IF pair \in friends
                        THEN req'[p] = [r EXCEPT !.pc = "create"]
                        ELSE /\ req'[p].pc = "idle"
                             /\ resp'.status = "BAD_REQUEST"
                             /\ resp'.message = "You can only chat with friends"
               /\ (req'[p].pc = "create" /\ req'[p].op = "createOneToOne"
                       /\ r.pc # "create")
                  => r.pc = "friendship" /\ pair \in friends
    /\ (Len(chats') > Len(chats) /\ chats'[Len(chats')].chatType = "one-to-one")
       => \E p \in Procs : /\ req[p].pc = "create"
                           /\ req[p].op = "createOneToOne"
                           /\ resp'.status = "CREATED"
                           /\ resp'.op = "createOneToOne"

C8_CreateOnlyForFriends == [][C8_Step]_vars

\* C8 witness: a createOneToOne between two users that are not friends has
\* been refused, and no chat is stored.
C8_Witness ==
    /\ resp.op = "createOneToOne"
    /\ resp.message = "You can only chat with friends"
    /\ chats = <<>>

\* the accepted friendship of u and v, as it is stored
Befriended(u, v) == (IF u < v THEN <<u, v>> ELSE <<v, u>>) \in friends

\* C9: createGroup goes on to the insertion only for a name that is not
\* blank and at least 2 distinct ids, none the requester's, that are all users
\* and, as its friendship lookup finds them, friends of the requester; the
\* insertion appends a group record that has the named ids and the requester
\* as participants, each once, the requester as its only admin and the name
\* given, and answers CREATED with its id; when createGroup answers anything
\* else it answers an error and the store is as it was.
C9_Step ==
    /\ \A p \in Procs :
           (req[p].pc = "idle" /\ req'[p].op = "createGroup")
           => LET r == req'[p]
              IN  /\ r.pc = "create"
                  /\ r.name # <<>> /\ \E i \in 1..Len(r.name) : r.name[i] # " "
                  /\ Cardinality(Range(r.named)) >= 2
                  /\ Len(r.named) = Cardinality(Range(r.named))
                  /\ Range(r.named) \subseteq Users \ {r.actor}
                  /\ \A u \in Range(r.named) : Befriended(u, r.actor)
                  /\ chats' = chats
    /\ \A p \in Procs :
           (req[p].op = "createGroup" /\ req[p].pc = "create"
                /\ req'[p].pc = "idle")
           => LET r == req[p]
                  new == chats'[Len(chats')]
              IN  /\ chats' = Append(chats, new)
                  /\ resp'.status = "CREATED"
                  /\ resp'.chat = Len(chats')
                  /\ new.chatType = "group"
                  /\ Range(new.participants) = Range(r.named) \cup {r.actor}
                  /\ Len(new.participants) = Cardinality(Range(r.named)) + 1
                  /\ new.admins = <<r.actor>>
                  /\ new.groupName = r.name
    /\ Answers("createGroup")
       => IF resp'.status = "CREATED"
          THEN \E p \in Procs : req[p].op = "createGroup" /\ req[p].pc = "create"
          ELSE chats' = chats /\ resp'.status \in Errors

C9_CreateGroup == [][C9_Step]_vars

\* C9 witness: a group has been created.
C9_Witness ==
    /\ resp.op = "createGroup"
    /\ resp.status = "CREATED"
    /\ chats[resp.chat].admins = <<chats[resp.chat].participants[3]>>

\* the stored chats a paginated query is about
Matching(q) ==
    {i \in 1..Len(chats) :
        /\ \E k \in 1..Len(chats[i].participants) :
               chats[i].participants[k] = q.actor
        /\ q.op = "searchGroups"
           => /\ chats[i].chatType = "group"
              /\ \E k \in 1..Len(chats[i].groupName) :
                     Lower(chats[i].groupName[k]) = Lower(q.search[1])}

\* C7: searchGroups and listChats answer for the page max(1, page), return at
\* most 50 chats of it, and report hasMore exactly when that page times 50 is
\* less than the number of matching chats.
C7_Pagination ==
    pageReq.status = "OK"
    => LET q == pageReq
           page == IF q.raw.numeric /\ q.raw.value > 1 THEN q.raw.value ELSE 1
           total == Cardinality(Matching(q))
       IN  /\ q.page = page
           /\ q.total = total
           /\ q.hasMore = (page * 50 < total)
           /\ q.returned = Cardinality({i \in 1..total :
                                           (page - 1) * 50 < i /\ i <= page * 50})

\* C7 witness: page 0 of listChats is answered as page 1 and has more.
C7_Witness ==
    /\ pageReq.op = "listChats"
    /\ pageReq.raw = [numeric |-> TRUE, value |-> 0]
    /\ pageReq.hasMore
    /\ pageReq.returned = 50

\* the records that a and b leave when they are served one after the other
\* on doc, in either order, and both report success
SerialOutcomes(doc, fs, a, b) ==
    {Serial(Serial(doc, fs, x[1]).doc, fs, x[2]).doc :
        x \in {y \in {<<a, b>>, <<b, a>>} :
                  /\ Serial(doc, fs, y[1]).ok
                  /\ Serial(Serial(doc, fs, y[1]).doc, fs, y[2]).ok}}

\* C10: when two of addParticipant, removeParticipant, toggleAdmin, leaveGroup
\* and updateGroupName have loaded the same group record and both save with
\* success, the record the second save leaves is the one that serving the two
\* one after the other, in some order, leaves.
C10_Step ==
    \A p \in Procs :
        LET r == req[p]
        IN  (r.pc = "save" /\ r.seen = "one" /\ req'[p].pc = "idle"
                 /\ resp'.status = "OK")
            => chats'[r.g] \in SerialOutcomes(r.doc, friends, r.other, Brief(r))

C10_MutationsSerialized == [][C10_Step]_vars

\* C11: when leaveGroup reports success, the actor is no participant of the
\* stored group: a leaveGroup that saves leaves a record without its actor, and
\* one that reports success at once, which it does for the last participant,
\* leaves a record without the participant the group had.
C11_Step ==
    (Answers("leaveGroup") /\ resp'.status = "OK")
    => LET g == resp'.chat
           saving == {p \in Procs : /\ req[p].op = "leaveGroup"
                                    /\ req[p].pc = "save"
                                    /\ req'[p].pc = "idle"}
       IN  IF saving # {}
           THEN \A p \in saving :
                    ~Includes(chats'[g].participants, req[p].actor)
           ELSE \E actor \in Users :
                    /\ Includes(chats[g].participants, actor)
                    /\ ~Includes(chats'[g].participants, actor)

C11_LeaverIsGone == [][C11_Step]_vars

\* C12: the admins of a stored group are among its participants.
C12_AdminsAreParticipants ==
    \A g \in Groups :
        \A i \in 1..Len(chats[g].admins) :
            \E k \in 1..Len(chats[g].participants) :
                chats[g].participants[k] = chats[g].admins[i]

\* C13: when updateGroupName, addParticipant, removeParticipant or toggleAdmin
\* has answered OK, an event of that mutation has been emitted to every live
\* connection of every participant of the group, and an event is emitted only
\* for a mutation that is stored.
C13_EventsPublished ==
    /\ (resp.status = "OK" /\ resp.op \in AdminOps)
       => \A u \in Range(chats[resp.chat].participants) :
              \A k \in 1..connections[u] :
                  [user |-> u, connection |-> k, event |-> resp.op,
                   chat |-> resp.chat] \in emitted
    /\ \A e \in emitted : e.chat \in Groups

\* C14: updateGroupIcon goes on to delete the previous icon only from its
\* save, with the blob of the new icon uploaded and the record holding the new
\* reference; the deletion, whether the blob store carries it out or fails,
\* ends with the answer OK and leaves the record with the new reference and
\* the new blob stored; and no blob is deleted by any other step.
C14_Step ==
    /\ \A p \in Procs :
           LET r == req[p]
           IN  (r.op = "updateGroupIcon" /\ req'[p] # r)
               => /\ req'[p].pc = "delete"
                     => /\ r.pc = "save"
                        /\ r.response # 0
                        /\ r.response \in cloud.stored
                        /\ chats'[r.g].groupIcon = r.response
                  /\ r.pc = "delete"
                     => /\ r.response # 0
                        /\ chats[r.g].groupIcon = r.response
                        /\ chats' = chats
                        /\ req'[p].pc = "idle"
                        /\ resp'.op = "updateGroupIcon"
                        /\ resp'.status = "OK"
                        /\ resp'.chat = r.g
                        /\ r.response \in cloud'.stored
                        /\ cloud'.stored \in {cloud.stored,
                                              cloud.stored \ {r.doc.groupIcon}}
    /\ cloud'.stored # cloud.stored
       => \/ cloud.stored \subseteq cloud'.stored
          \/ \E p \in Procs : req[p].pc = "delete"

C14_IconCleanupIsBestEffort == [][C14_Step]_vars

\* C14 witness: the icon has been replaced, the deletion of the previous blob
\* has failed and the request has answered OK.
C14_Witness ==
    /\ resp.op = "updateGroupIcon"
    /\ resp.status = "OK"
    /\ chats[resp.chat].groupIcon = 2
    /\ cloud.stored = {1, 2}

\* C15: removeParticipant by an admin refuses the admin itself as target and
\* goes on to its save for a participant other than the actor; its save
\* answers OK and leaves the participants without the target, the others in
\* their order, the admins without the target, and the name, the icon, the
\* type and every other record as they were; a removeParticipant that answers
\* an error changes nothing.
C15_State ==
    \A g \in Groups, actor \in Users :
        Includes(chats[g].admins, actor)
        => /\ RemoveDecision(chats, actor, g, actor)[1] = "BAD_REQUEST"
           /\ \A target \in Users \ {actor} :
                  Includes(chats[g].participants, target)
                  => RemoveDecision(chats, actor, g, target)[1] = "CONTINUE"

C15_Step ==
    /\ \A p \in Procs :
           LET r == req[p]
               old == chats[r.g]
               new == chats'[r.g]
           IN  /\ (r.pc = "idle" /\ req'[p].op = "removeParticipant"
                       /\ req'[p].pc # "idle")
                  => /\ req'[p].pc = "save"
                     /\ req'[p].target # req'[p].actor
                     /\ chats' = chats
               /\ (r.op = "removeParticipant" /\ r.pc = "save"
                       /\ req'[p].pc = "idle")
                  => /\ resp'.status = "OK"
                     /\ Includes(old.participants, r.target)
                     /\ new.participants = Without(old.participants, r.target)
                     /\ new.admins = Without(old.admins, r.target)
                     /\ new.groupName = old.groupName
                     /\ new.groupIcon = old.groupIcon
                     /\ new.chatType = old.chatType
                     /\ Len(chats') = Len(chats)
                     /\ \A h \in 1..Len(chats) : h # r.g => chats'[h] = chats[h]
    /\ (Answers("removeParticipant") /\ resp'.status # "OK") => chats' = chats

C15_RemoveFrame == [](C15_State) /\ [][C15_Step]_vars

\* C15 witness: the third request served has removed a participant from a
\* group of three, whose creator is the admin.
C15_Witness ==
    /\ resp.op = "removeParticipant"
    /\ resp.status = "OK"
    /\ nreq = 3
    /\ Len(chats) = 1
    /\ Len(chats[1].participants) = 2
    /\ chats[1].admins = <<chats[1].participants[2]>>

\* C16: toggleAdmin by an admin on a participant goes on to its save; the
\* save answers OK, appends the target to the admins with "User marked as
\* admin" exactly when it was no admin and takes it out with "Admin removed"
\* exactly when it was one, and leaves the participants and the rest of the
\* record as they were; two toggles of one target served one after the other
\* with success leave the admin set and the participants they started from.
C16_State ==
    \A g \in Groups, actor \in Users, target \in Users :
        (Includes(chats[g].admins, actor)
            /\ Includes(chats[g].participants, target))
        => /\ ToggleDecision(chats, actor, g, target)[1] = "CONTINUE"
           /\ \A second \in Users :
                  LET one == Serial(chats[g], friends,
                                    <<"toggleAdmin", actor, target, <<>>>>)
                      two == Serial(one.doc, friends,
                                    <<"toggleAdmin", second, target, <<>>>>)
                  IN  /\ one.ok
                      /\ two.ok
                         => /\ Range(two.doc.admins) = Range(chats[g].admins)
                            /\ Len(two.doc.admins) = Len(chats[g].admins)
                            /\ two.doc.participants = chats[g].participants

C16_Step ==
    \A p \in Procs :
        LET r == req[p]
            old == chats[r.g]
            new == chats'[r.g]
        IN  (r.op = "toggleAdmin" /\ r.pc = "save" /\ req'[p].pc = "idle")
            => /\ resp'.status = "OK"
               /\ Includes(old.participants, r.target)
               /\ IF Includes(old.admins, r.target)
                  THEN /\ new.admins = Without(old.admins, r.target)
                       /\ resp'.message = "Admin removed"
                  ELSE /\ new.admins = Append(old.admins, r.target)
                       /\ resp'.message = "User marked as admin"
               /\ new.participants = old.participants
               /\ new.groupName = old.groupName
               /\ new.groupIcon = old.groupIcon
               /\ Len(chats') = Len(chats)
               /\ \A h \in 1..Len(chats) : h # r.g => chats'[h] = chats[h]

C16_ToggleAdmin == [](C16_State) /\ [][C16_Step]_vars

\* C16 witness: a participant of a new group has been marked as admin and,
\* by the next request, removed as admin: the creator is the only admin again.
C16_Witness ==
    /\ resp.op = "toggleAdmin"
    /\ resp.message = "Admin removed"
    /\ nreq = 3
    /\ Len(chats) = 1
    /\ Len(chats[1].participants) = 3
    /\ chats[1].admins = <<chats[1].participants[3]>>

\* C17: no user id occurs twice in the participants of a stored group.
C17_DistinctParticipants ==
    \A g \in Groups :
        \A i, k \in 1..Len(chats[g].participants) :
            chats[g].participants[i] = chats[g].participants[k] => i = k

OneToOnes == {c \in 1..Len(chats) : chats[c].chatType = "one-to-one"}

\* the name has a character that is no space
NamesSomething(name) == \E i \in 1..Len(name) : name[i] # " "

\* C18: a one-to-one record has exactly 2 participants, the smaller id first.
\* Called with the id of a one-to-one chat, updateGroupName with a name that
\* is not blank, addParticipant, removeParticipant and toggleAdmin with a
\* well-formed participant id, leaveGroup and updateGroupIcon answer
\* NOT_FOUND, and with a blank name or a malformed participant id the first
\* four answer BAD_REQUEST; no request of these handlers is served further on
\* a one-to-one chat, and no step changes a one-to-one record.
C18_State ==
    \A c \in OneToOnes :
        /\ Len(chats[c].participants) = 2
        /\ chats[c].participants[1] < chats[c].participants[2]
        /\ \A actor \in Users :
               /\ \A name \in NameInputs :
                      RenameDecision(chats, actor, c, name)[1]
                          = IF NamesSomething(name) THEN "NOT_FOUND"
                            ELSE "BAD_REQUEST"
               /\ \A target \in InputIds :
                      LET status == IF target >= 1 THEN "NOT_FOUND"
                                    ELSE "BAD_REQUEST"
                      IN  /\ AddDecision(chats, actor, c, target)[1] = status
                          /\ RemoveDecision(chats, actor, c, target)[1] = status
                          /\ ToggleDecision(chats, actor, c, target)[1] = status
               /\ LeaveDecision(chats, actor, c)[1] = "NOT_FOUND"
               /\ \A file \in BOOLEAN :
                      IconDecision(chats, actor, c, file)[1] = "NOT_FOUND"

\* C18 as it is stated: every request of a group handler with the id of a
\* one-to-one chat answers NOT_FOUND.
C18_Original ==
    \A c \in OneToOnes, actor \in Users :
        /\ \A name \in NameInputs :
               RenameDecision(chats, actor, c, name)[1] = "NOT_FOUND"
        /\ \A target \in InputIds :
               /\ AddDecision(chats, actor, c, target)[1] = "NOT_FOUND"
               /\ RemoveDecision(chats, actor, c, target)[1] = "NOT_FOUND"
               /\ ToggleDecision(chats, actor, c, target)[1] = "NOT_FOUND"
        /\ LeaveDecision(chats, actor, c)[1] = "NOT_FOUND"
        /\ \A file \in BOOLEAN :
               IconDecision(chats, actor, c, file)[1] = "NOT_FOUND"

C18_Step ==
    /\ \A c \in OneToOnes : c <= Len(chats') /\ chats'[c] = chats[c]
    /\ \A p \in Procs :
           (req[p].pc = "idle" /\ req'[p].pc # "idle"
                /\ req'[p].op \in GroupOps \cup {"updateGroupIcon"})
           => req'[p].g \in Groups
    /\ (resp = NoResp /\ resp' # NoResp
            /\ resp'.op \in GroupOps \cup {"updateGroupIcon"}
            /\ resp'.status = "NOT_FOUND")
       => chats' = chats

C18_OneToOneUntouched == [](C18_State) /\ [][C18_Step]_vars

\* C18 witness: the store is full of one-to-one chats and toggleAdmin, called
\* with the id of one of them, has answered NOT_FOUND.
C18_Witness ==
    /\ Len(chats) = MaxChats
    /\ Groups = {}
    /\ resp.op = "toggleAdmin"
    /\ resp.status = "NOT_FOUND"

\* where the process has logged x
Logged(x) == {i \in 1..Len(boot) : boot[i] = x}

\* C19: the process starts the server, attaches the socket service and
\* initializes its listeners at most once each; it starts the server only
\* after the database connection has succeeded, attaches the socket service
\* only after the server has been started and initializes the listeners only
\* after the attachment; a process that serves requests has done all three;
\* after a failed connection the server is not started and the socket service
\* not attached, and the process has exited; and what has been done at start
\* is never done again.
C19_State ==
    /\ \A x \in {"listen", "attach", "initializeListeners"} :
           Cardinality(Logged(x)) <= 1
    /\ \A l \in Logged("listen") : \E c \in Logged("connected") : c < l
    /\ \A a \in Logged("attach") : \E l \in Logged("listen") : l < a
    /\ \A n \in Logged("initializeListeners") :
           \E a \in Logged("attach") : a < n
    /\ (chats # <<>> \/ resp # NoResp \/ \E p \in Procs : req[p].pc # "idle")
       => /\ Logged("listen") # {}
          /\ Logged("attach") # {}
          /\ Logged("initializeListeners") # {}
    /\ Logged("failed") # {}
       => /\ Logged("listen") = {}
          /\ Logged("attach") = {}
          /\ Logged("initializeListeners") = {}
          /\ boot[Len(boot)] = "exit"

C19_Step == boot # <<>> => boot' = boot

C19_StartsOnce == [](C19_State) /\ [][C19_Step]_vars

\* C19 witness: the process has started and has served a createGroupChat.
C19_Witness ==
    /\ Logged("initializeListeners") # {}
    /\ Groups # {}
    /\ resp.status = "CREATED"

\* the one-to-one records stored for users u and v
ChatsOf(u, v) ==
    {c \in OneToOnes :
        chats[c].participants = IF u < v THEN <<u, v>> ELSE <<v, u>>}

\* C20: when a one-to-one chat of the pair is stored, createOneToOne answers OK
\* with it at once and creates nothing, whether or not the friendship of the
\* pair is accepted; it looks the friendship up, and refuses a pair that is
\* not befriended, only when no chat of the pair is stored.
C20_State ==
    \A actor \in Users, target \in Users :
        ChatsOf(actor, target) # {}
        => /\ OneToOneDecision(chats, actor, target)[1] = "OK"
           /\ OneToOneDecision(chats, actor, target)[3]
                  \in ChatsOf(actor, target)

C20_Step ==
    /\ (Answers("createOneToOne") /\ resp'.status = "OK")
       => /\ chats' = chats
          /\ Len(answers') = Len(answers) + 1
          /\ LET x == answers'[Len(answers')]
             IN  /\ x.chat = resp'.chat
                 /\ x.chat \in ChatsOf(x.actor, x.target)
    /\ \A p \in Procs :
           (req[p].pc = "idle" /\ req'[p].op = "createOneToOne")
           => /\ req'[p].pc = "friendship"
              /\ ChatsOf(req'[p].actor, req'[p].target) = {}
    /\ (Answers("createOneToOne")
            /\ resp'.message = "You can only chat with friends")
       => \E p \in Procs : /\ req[p].pc = "friendship"
                           /\ ChatsOf(req[p].actor, req[p].target) = {}

C20_ExistingChatNeedsNoFriendship == [](C20_State) /\ [][C20_Step]_vars

\* C20 witness: createOneToOne has answered OK with the chat of two users
\* whose friendship is no longer accepted.
C20_Witness ==
    /\ resp.op = "createOneToOne"
    /\ resp.status = "OK"
    /\ answers # <<>>
    /\ ~Befriended(answers[Len(answers)].actor, answers[Len(answers)].target)
    /\ answers[Len(answers)].chat = resp.chat

=============================================================================
